---- MODULE Spec2Model ----
(***************************************************************************)
(* Model of the Barberia-App mock store (services/apiService.ts) and of    *)
(* its time-slot availability engine, getAvailableTimeSlots.               *)
(*                                                                         *)
(* Time is counted in minutes since the epoch (the code counts             *)
(* milliseconds; every constant of the code is a whole number of minutes). *)
(* The local time zone is taken to be UTC without daylight saving, so a    *)
(* calendar day is DayMinutes long and day 0 is a Thursday.                *)
(***************************************************************************)
EXTENDS Integers, Sequences, FiniteSets, TLC

VARIABLES
    mockBarbers,        \* apiService.ts: let mockBarbers: Barber[]
    mockAppointments,   \* apiService.ts: let mockAppointments: Appointment[]
    mockBusinessHours,  \* apiService.ts: let mockBusinessHours: BusinessHours
    callers,            \* the API callers: position and data of each
    q,                  \* the last completed getAvailableTimeSlots call
    localHours,         \* AdminDashboardView.tsx: BusinessHoursManager's localHours
    fetch,              \* BookingView.tsx: the running fetchSlots call
    availableSlots,     \* BookingView.tsx: the availableSlots state
    lastCall,           \* the last call of the store API and its outcome
    held,               \* the object an API caller holds and whether the store shares it
    step,               \* BookingView.tsx: the step state
    selectedServiceId,  \* BookingView.tsx: the selectedServiceId state
    selectedBarberId,   \* BookingView.tsx: the selectedBarberId state
    selectedSlot,       \* BookingView.tsx: the selectedSlot state
    fetchRuns,          \* BookingView.tsx: the fetchSlots calls that have not finished
    resetTimers,        \* BookingView.tsx: pending setTimeout(resetBookingFlow, 5000)
    submitted,          \* BookingView.tsx: the last handleSubmit and its outcome
    mockClients,        \* apiService.ts: let mockClients: Client[]
    currentUser,        \* AuthContext.tsx: the currentUser state
    localStorage,       \* the browser's localStorage
    sessionStorage,     \* the browser's sessionStorage
    authCalls           \* AuthContext.tsx: login / register calls awaiting the API

storeVars == <<mockBarbers, mockAppointments, mockBusinessHours>>
viewVars == <<localHours, fetch, availableSlots>>
apiVars == <<lastCall, held>>
bookVars == <<step, selectedServiceId, selectedBarberId, selectedSlot, fetchRuns,
              resetTimers, submitted>>
authVars == <<mockClients, currentUser, localStorage, sessionStorage, authCalls>>
vars == <<mockBarbers, mockAppointments, mockBusinessHours, callers, q,
          localHours, fetch, availableSlots, lastCall, held,
          step, selectedServiceId, selectedBarberId, selectedSlot, fetchRuns,
          resetTimers, submitted,
          mockClients, currentUser, localStorage, sessionStorage, authCalls>>

-----------------------------------------------------------------------------
(* Bounds *)

MaxBarbers == 2
MaxAppointments == 2
MaxInitAppointments == 2
MaxPick == 2
MaxFetchRuns == 2
MaxResetTimers == 1
MaxAuthCalls == 2

Callers == {"k1", "k2"}
BarberIds == {"b1", "b2"}

-----------------------------------------------------------------------------
(* Dates *)

DayMinutes == 24 * 60

\* new Date(y, m, d, h, min) for the d-th day after the epoch
DateAt(day, h, m) == day * DayMinutes + h * 60 + m

\* mutant of getStartOfDay: the time of day is not cleared
getStartOfDay_keepTime(date) == date

\* apiService.ts getStartOfDay: newDate.setHours(0, 0, 0, 0)
getStartOfDay(date) == date - (date % DayMinutes)

\* mutant of argAfterGetStartOfDay: setHours(0, 0, 0, 0) is applied to the
\* argument itself
argAfterGetStartOfDay_inPlace(date) == date - (date % DayMinutes)

\* the caller's Date object after getStartOfDay(date) returned: the function
\* works on the copy new Date(date)
argAfterGetStartOfDay(date) == date

\* Date.prototype.getDay: 0 = Sunday; the epoch day is a Thursday
getDay(date) == ((date \div DayMinutes) + 4) % 7

\* Date.prototype.setHours(h, m) on a date: same day, given hour and minute
setHours(date, h, m) == getStartOfDay(date) + h * 60 + m

\* Date.prototype.toISOString / JSON.stringify of a Date
toISOString(t) ==
    [day |-> t \div DayMinutes,
     hh  |-> (t % DayMinutes) \div 60,
     mm  |-> t % 60]

\* mutant of parseISO: the minutes of the string are dropped
parseISO_noMinutes(s) == s.day * DayMinutes + s.hh * 60

\* new Date(isoString)
parseISO(s) == s.day * DayMinutes + s.hh * 60 + s.mm

-----------------------------------------------------------------------------
(* "HH:MM" strings, as sequences of characters *)

Digits == <<"0", "1", "2", "3", "4", "5", "6", "7", "8", "9">>

DigitValue(c) == (CHOOSE i \in 1..10 : Digits[i] = c) - 1

\* Number("09") etc.
RECURSIVE Number(_)
Number(s) ==
    IF Len(s) = 0 THEN 0
    ELSE 10 * Number(SubSeq(s, 1, Len(s) - 1)) + DigitValue(s[Len(s)])

\* s.split(':')
split(s) ==
    LET i == CHOOSE j \in 1..Len(s) : s[j] = ":"
    IN  <<SubSeq(s, 1, i - 1), SubSeq(s, i + 1, Len(s))>>

\* todayHours.open.split(':').map(Number)
splitMapNumber(s) == <<Number(split(s)[1]), Number(split(s)[2])>>

HHMM(a, b, c, d) == <<Digits[a + 1], Digits[b + 1], ":", Digits[c + 1], Digits[d + 1]>>

-----------------------------------------------------------------------------
(* Types *)

SCHEDULED == "Scheduled"
COMPLETED == "Completed"
CANCELLED == "Cancelled"
NO_SHOW == "No Show"
AppointmentStatus == {SCHEDULED, COMPLETED, CANCELLED, NO_SHOW}

DayNames == <<"sunday", "monday", "tuesday", "wednesday", "thursday", "friday", "saturday">>

DayHours(open, close, isClosed) == [open |-> open, close |-> close, isClosed |-> isClosed]

mockServices ==
    [s1 |-> [id |-> "s1", name |-> "Classic Haircut",    durationMinutes |-> 45, price |-> 30],
     s2 |-> [id |-> "s2", name |-> "Beard Trim & Shape", durationMinutes |-> 30, price |-> 20],
     s3 |-> [id |-> "s3", name |-> "Hot Towel Shave",    durationMinutes |-> 60, price |-> 45],
     s4 |-> [id |-> "s4", name |-> "Cut & Shave Combo",  durationMinutes |-> 90, price |-> 65]]

InitBusinessHours ==
    [monday    |-> DayHours(HHMM(0,9,0,0), HHMM(1,7,0,0), FALSE),
     tuesday   |-> DayHours(HHMM(0,9,0,0), HHMM(1,7,0,0), FALSE),
     wednesday |-> DayHours(HHMM(0,9,0,0), HHMM(1,7,0,0), FALSE),
     thursday  |-> DayHours(HHMM(0,9,0,0), HHMM(1,9,0,0), FALSE),
     friday    |-> DayHours(HHMM(0,9,0,0), HHMM(1,9,0,0), FALSE),
     saturday  |-> DayHours(HHMM(1,0,0,0), HHMM(1,6,0,0), FALSE),
     sunday    |-> DayHours(HHMM(0,9,0,0), HHMM(1,7,0,0), TRUE)]

-----------------------------------------------------------------------------
(* The availability engine *)

GridStep == 15

\* mutant of conflictWith: only the candidate's start is tested against the
\* appointment
conflictWith_startInside(app, barberId, cleanDate, startTimeCandidate, endTimeCandidate) ==
    /\ app.barberId = barberId
    /\ app.status = SCHEDULED
    /\ getStartOfDay(app.startTime) = cleanDate
    /\ startTimeCandidate < app.endTime
    /\ startTimeCandidate >= app.startTime

\* mutant of conflictWith: closed intervals, touching counts as a conflict
conflictWith_closed(app, barberId, cleanDate, startTimeCandidate, endTimeCandidate) ==
    /\ app.barberId = barberId
    /\ app.status = SCHEDULED
    /\ getStartOfDay(app.startTime) = cleanDate
    /\ startTimeCandidate <= app.endTime
    /\ endTimeCandidate >= app.startTime

\* mutant of conflictWith: the status is not tested
conflictWith_anyStatus(app, barberId, cleanDate, startTimeCandidate, endTimeCandidate) ==
    /\ app.barberId = barberId
    /\ getStartOfDay(app.startTime) = cleanDate
    /\ startTimeCandidate < app.endTime
    /\ endTimeCandidate > app.startTime

\* mutant of conflictWith: the barber is not tested
conflictWith_anyBarber(app, barberId, cleanDate, startTimeCandidate, endTimeCandidate) ==
    /\ app.status = SCHEDULED
    /\ getStartOfDay(app.startTime) = cleanDate
    /\ startTimeCandidate < app.endTime
    /\ endTimeCandidate > app.startTime

\* mutant of conflictWith: the calendar day is not tested
conflictWith_anyDay(app, barberId, cleanDate, startTimeCandidate, endTimeCandidate) ==
    /\ app.barberId = barberId
    /\ app.status = SCHEDULED
    /\ startTimeCandidate < app.endTime
    /\ endTimeCandidate > app.startTime

\* the predicate of mockAppointments.some(...)
conflictWith(app, barberId, cleanDate, startTimeCandidate, endTimeCandidate) ==
    /\ app.barberId = barberId
    /\ app.status = SCHEDULED
    /\ getStartOfDay(app.startTime) = cleanDate
    /\ startTimeCandidate < app.endTime
    /\ endTimeCandidate > app.startTime

\* mutant of slotLoop: a candidate that ends exactly at closing time is dropped
RECURSIVE slotLoop_strictClose(_, _, _, _, _, _)
slotLoop_strictClose(time, closingTime, cleanDate, barberId, serviceDurationMinutes, apps) ==
    IF ~(time < closingTime) THEN <<>>
    ELSE
        LET startTimeCandidate == time
            endTimeCandidate == startTimeCandidate + serviceDurationMinutes
            rest == slotLoop_strictClose(time + GridStep, closingTime, cleanDate, barberId,
                             serviceDurationMinutes, apps)
            conflict == \E i \in 1..Len(apps) :
                            conflictWith(apps[i], barberId, cleanDate,
                                         startTimeCandidate, endTimeCandidate)
        IN  IF endTimeCandidate >= closingTime THEN rest
            ELSE IF ~conflict
                 THEN <<[startTime |-> startTimeCandidate,
                         endTime |-> endTimeCandidate,
                         barberId |-> barberId]>> \o rest
                 ELSE rest

\* mutant of slotLoop: the end of the candidate is not compared with closing time
RECURSIVE slotLoop_noCloseCheck(_, _, _, _, _, _)
slotLoop_noCloseCheck(time, closingTime, cleanDate, barberId, serviceDurationMinutes, apps) ==
    IF ~(time < closingTime) THEN <<>>
    ELSE
        LET startTimeCandidate == time
            endTimeCandidate == startTimeCandidate + serviceDurationMinutes
            rest == slotLoop_noCloseCheck(time + GridStep, closingTime, cleanDate, barberId,
                             serviceDurationMinutes, apps)
            conflict == \E i \in 1..Len(apps) :
                            conflictWith(apps[i], barberId, cleanDate,
                                         startTimeCandidate, endTimeCandidate)
        IN  IF FALSE THEN rest
            ELSE IF ~conflict
                 THEN <<[startTime |-> startTimeCandidate,
                         endTime |-> endTimeCandidate,
                         barberId |-> barberId]>> \o rest
                 ELSE rest

\* mutant of slotLoop: the loop advances by the service duration
RECURSIVE slotLoop_stepByDuration(_, _, _, _, _, _)
slotLoop_stepByDuration(time, closingTime, cleanDate, barberId, serviceDurationMinutes, apps) ==
    IF ~(time < closingTime) THEN <<>>
    ELSE
        LET startTimeCandidate == time
            endTimeCandidate == startTimeCandidate + serviceDurationMinutes
            rest == slotLoop_stepByDuration(time + (IF serviceDurationMinutes > 0 THEN serviceDurationMinutes ELSE GridStep), closingTime, cleanDate, barberId,
                             serviceDurationMinutes, apps)
            conflict == \E i \in 1..Len(apps) :
                            conflictWith(apps[i], barberId, cleanDate,
                                         startTimeCandidate, endTimeCandidate)
        IN  IF endTimeCandidate > closingTime THEN rest
            ELSE IF ~conflict
                 THEN <<[startTime |-> startTimeCandidate,
                         endTime |-> endTimeCandidate,
                         barberId |-> barberId]>> \o rest
                 ELSE rest

\* mutant of slotLoop: a surviving candidate is put in front of the list
RECURSIVE slotLoop_reversed(_, _, _, _, _, _)
slotLoop_reversed(time, closingTime, cleanDate, barberId, serviceDurationMinutes, apps) ==
    IF ~(time < closingTime) THEN <<>>
    ELSE
        LET startTimeCandidate == time
            endTimeCandidate == startTimeCandidate + serviceDurationMinutes
            rest == slotLoop_reversed(time + GridStep, closingTime, cleanDate, barberId,
                             serviceDurationMinutes, apps)
            conflict == \E i \in 1..Len(apps) :
                            conflictWith(apps[i], barberId, cleanDate,
                                         startTimeCandidate, endTimeCandidate)
        IN  IF endTimeCandidate > closingTime THEN rest
            ELSE IF ~conflict
                 THEN rest \o <<[startTime |-> startTimeCandidate,
                                  endTime |-> endTimeCandidate,
                                  barberId |-> barberId]>>
                 ELSE rest

\* the body of the for loop, from the candidate `time` on
RECURSIVE slotLoop(_, _, _, _, _, _)
slotLoop(time, closingTime, cleanDate, barberId, serviceDurationMinutes, apps) ==
    IF ~(time < closingTime) THEN <<>>
    ELSE
        LET startTimeCandidate == time
            endTimeCandidate == startTimeCandidate + serviceDurationMinutes
            rest == slotLoop(time + GridStep, closingTime, cleanDate, barberId,
                             serviceDurationMinutes, apps)
            conflict == \E i \in 1..Len(apps) :
                            conflictWith(apps[i], barberId, cleanDate,
                                         startTimeCandidate, endTimeCandidate)
        IN  IF endTimeCandidate > closingTime THEN rest
            ELSE IF ~conflict
                 THEN <<[startTime |-> startTimeCandidate,
                         endTime |-> endTimeCandidate,
                         barberId |-> barberId]>> \o rest
                 ELSE rest

\* the for loop with `break` in place of `continue` at the closing-time check
RECURSIVE slotLoop_break(_, _, _, _, _, _)
slotLoop_break(time, closingTime, cleanDate, barberId, serviceDurationMinutes, apps) ==
    IF ~(time < closingTime) THEN <<>>
    ELSE
        LET startTimeCandidate == time
            endTimeCandidate == startTimeCandidate + serviceDurationMinutes
            conflict == \E i \in 1..Len(apps) :
                            conflictWith(apps[i], barberId, cleanDate,
                                         startTimeCandidate, endTimeCandidate)
        IN  IF endTimeCandidate > closingTime THEN <<>>
            ELSE IF ~conflict
                 THEN <<[startTime |-> startTimeCandidate,
                         endTime |-> endTimeCandidate,
                         barberId |-> barberId]>>
                      \o slotLoop_break(time + GridStep, closingTime, cleanDate, barberId,
                                        serviceDurationMinutes, apps)
                 ELSE slotLoop_break(time + GridStep, closingTime, cleanDate, barberId,
                                     serviceDurationMinutes, apps)

\* simulateDelay's JSON.parse(JSON.stringify(slots)) followed by the
\* re-hydration of the date strings
rehydrateSlots(slots) ==
    LET json == [i \in 1..Len(slots) |->
                    [startTime |-> toISOString(slots[i].startTime),
                     endTime   |-> toISOString(slots[i].endTime),
                     barberId  |-> slots[i].barberId]]
    IN  [i \in 1..Len(json) |->
            [startTime |-> parseISO(json[i].startTime),
             endTime   |-> parseISO(json[i].endTime),
             barberId  |-> json[i].barberId]]

openingTimeOf(cleanDate, todayHours) ==
    setHours(cleanDate, splitMapNumber(todayHours.open)[1], splitMapNumber(todayHours.open)[2])

closingTimeOf(cleanDate, todayHours) ==
    setHours(cleanDate, splitMapNumber(todayHours.close)[1], splitMapNumber(todayHours.close)[2])

\* mutant of getAvailableTimeSlots: isClosed is not consulted
getAvailableTimeSlots_ignoreClosed(date, barberId, serviceDurationMinutes, hours, apps) ==
    LET cleanDate == getStartOfDay(date)
        dayName == DayNames[getDay(cleanDate) + 1]
    IN  IF dayName \notin DOMAIN hours
        THEN [ok |-> FALSE, error |-> "TypeError", slots |-> <<>>]
        ELSE
            LET todayHours == hours[dayName]
            IN  IF FALSE
                THEN [ok |-> TRUE, error |-> "", slots |-> <<>>]
                ELSE [ok |-> TRUE, error |-> "",
                      slots |-> rehydrateSlots(
                          slotLoop(openingTimeOf(cleanDate, todayHours),
                                   closingTimeOf(cleanDate, todayHours),
                                   cleanDate, barberId, serviceDurationMinutes, apps))]

\* getAvailableTimeSlots(date, barberId, serviceDurationMinutes), reading the
\* store (hours, apps); the value the returned promise settles with
getAvailableTimeSlots(date, barberId, serviceDurationMinutes, hours, apps) ==
    LET cleanDate == getStartOfDay(date)
        dayName == DayNames[getDay(cleanDate) + 1]
    IN  IF dayName \notin DOMAIN hours
        THEN [ok |-> FALSE, error |-> "TypeError", slots |-> <<>>]
        ELSE
            LET todayHours == hours[dayName]
            IN  IF todayHours.isClosed
                THEN [ok |-> TRUE, error |-> "", slots |-> <<>>]
                ELSE [ok |-> TRUE, error |-> "",
                      slots |-> rehydrateSlots(
                          slotLoop(openingTimeOf(cleanDate, todayHours),
                                   closingTimeOf(cleanDate, todayHours),
                                   cleanDate, barberId, serviceDurationMinutes, apps))]

-----------------------------------------------------------------------------
(* Store operations *)

toLowerCase(e) == IF e = "Al@x" THEN "al@x" ELSE e

\* createBarber: the index of a barber with this email, 0 if none
findByEmail(barbers, email) ==
    IF \E i \in 1..Len(barbers) : toLowerCase(barbers[i].email) = toLowerCase(email)
    THEN CHOOSE i \in 1..Len(barbers) :
            /\ toLowerCase(barbers[i].email) = toLowerCase(email)
            /\ \A j \in 1..(i - 1) : toLowerCase(barbers[j].email) # toLowerCase(email)
    ELSE 0

\* mockBarbers.findIndex(b => b.id === barberId), 1-based, 0 for -1
findIndex(barbers, barberId) ==
    IF \E i \in 1..Len(barbers) : barbers[i].id = barberId
    THEN CHOOSE i \in 1..Len(barbers) :
            /\ barbers[i].id = barberId
            /\ \A j \in 1..(i - 1) : barbers[j].id # barberId
    ELSE 0

\* mutant of createAppointmentOn: only the service is looked up
createAppointmentOn_serviceOnly(data, barbers, apps) ==
    LET serviceFound == data.serviceId \in DOMAIN mockServices
    IN  IF ~serviceFound
        THEN [ok |-> FALSE, error |-> "Service or Barber not found", apps |-> apps]
        ELSE
            LET service == mockServices[data.serviceId]
                newAppointment ==
                    [barberId    |-> data.barberId,
                     serviceId   |-> data.serviceId,
                     startTime   |-> data.startTime,
                     endTime     |-> data.endTime,
                     status      |-> SCHEDULED,
                     serviceName |-> service.name,
                     barberName  |-> "",
                     price       |-> service.price]
            IN  [ok |-> TRUE, error |-> "", apps |-> Append(apps, newAppointment)]

\* the synchronous part of createAppointment(data): the outcome and the
\* appointment list it leaves
createAppointmentOn(data, barbers, apps) ==
    LET serviceFound == data.serviceId \in DOMAIN mockServices
        barberIndex == findIndex(barbers, data.barberId)
    IN  IF ~serviceFound \/ barberIndex = 0
        THEN [ok |-> FALSE, error |-> "Service or Barber not found", apps |-> apps]
        ELSE
            LET service == mockServices[data.serviceId]
                barber == barbers[barberIndex]
                newAppointment ==
                    [barberId    |-> data.barberId,
                     serviceId   |-> data.serviceId,
                     startTime   |-> data.startTime,
                     endTime     |-> data.endTime,
                     status      |-> SCHEDULED,
                     serviceName |-> service.name,
                     barberName  |-> barber.name,
                     price       |-> service.price]
            IN  [ok |-> TRUE, error |-> "", apps |-> Append(apps, newAppointment)]

\* Array.prototype.splice(index, 1), 1-based
splice(seq, index) == SubSeq(seq, 1, index - 1) \o SubSeq(seq, index + 1, Len(seq))

\* mutant of deleteBarberOn: the barber's appointments are kept
deleteBarberOn_keepAppointments(barberId, barbers, apps) ==
    LET barberIndex == findIndex(barbers, barberId)
    IN  IF barberIndex = 0
        THEN [ok |-> FALSE, error |-> "Barber not found to delete.",
              barbers |-> barbers, apps |-> apps]
        ELSE [ok |-> TRUE, error |-> "",
              barbers |-> splice(barbers, barberIndex),
              apps |-> apps]

\* deleteBarber(barberId): the outcome and the lists it leaves
deleteBarberOn(barberId, barbers, apps) ==
    LET barberIndex == findIndex(barbers, barberId)
    IN  IF barberIndex = 0
        THEN [ok |-> FALSE, error |-> "Barber not found to delete.",
              barbers |-> barbers, apps |-> apps]
        ELSE [ok |-> TRUE, error |-> "",
              barbers |-> splice(barbers, barberIndex),
              apps |-> SelectSeq(apps, LAMBDA app : app.barberId # barberId)]

\* updateBarber(barberId, data): Object.assign of the given fields onto the
\* stored barber; id, role and email are not part of BarberUpdateData
updateBarberOn(barberId, data, barbers) ==
    LET barberIndex == findIndex(barbers, barberId)
    IN  IF barberIndex = 0
        THEN [ok |-> FALSE, error |-> "Barber not found", barbers |-> barbers]
        ELSE [ok |-> TRUE, error |-> "",
              barbers |-> [barbers EXCEPT ![barberIndex].name = data.name]]

-----------------------------------------------------------------------------
(* Inputs *)

\* the first day after the epoch that falls on the given weekday
FirstDayNamed(name) == CHOOSE d \in 0..6 : DayNames[getDay(DateAt(d, 0, 0)) + 1] = name

Sunday == FirstDayNamed("sunday")
Monday == FirstDayNamed("monday")

QueryDates == {DateAt(Sunday, 0, 0), DateAt(Monday, 0, 0), DateAt(Monday, 15, 37)}

QueryDurations == {-15, 0, 20, 30, 45, 120}

HoursOptions ==
    {DayHours(HHMM(0,9,0,0), HHMM(1,7,0,0), FALSE),
     DayHours(HHMM(0,9,3,0), HHMM(1,1,2,0), FALSE),
     DayHours(HHMM(1,1,0,0), HHMM(0,9,0,0), FALSE),
     DayHours(HHMM(0,9,0,0), HHMM(0,9,0,0), FALSE),
     DayHours(HHMM(0,9,0,0), HHMM(1,7,0,0), TRUE),
     DayHours(HHMM(0,9,3,0), HHMM(1,1,2,0), TRUE)}

\* whole-week configurations passed to updateBusinessHours
HoursInputs == {[InitBusinessHours EXCEPT !.monday = h] : h \in HoursOptions}

Appt(barberId, startTime, endTime, status) ==
    [barberId    |-> barberId,
     serviceId   |-> "s1",
     startTime   |-> startTime,
     endTime     |-> endTime,
     status      |-> status,
     serviceName |-> mockServices["s1"].name,
     barberName  |-> "Al",
     price       |-> mockServices["s1"].price]

\* appointment lists the engine is applied to
AppointmentPool ==
    {Appt("b1", DateAt(Monday, 10, 0), DateAt(Monday, 10, 45), st) : st \in AppointmentStatus}
    \cup {Appt("b2", DateAt(Monday, 10, 0), DateAt(Monday, 10, 45), SCHEDULED),
          Appt("b1", DateAt(Sunday, 23, 0), DateAt(Monday, 9, 40), SCHEDULED),
          Appt("b1", DateAt(Monday, 9, 20), DateAt(Monday, 9, 50), SCHEDULED)}

SeqsUpTo(S, n) == UNION {[1..k -> S] : k \in 0..n}

BarberData ==
    {[email |-> "Al@x", name |-> "Al"],
     [email |-> "al@x", name |-> "Al"],
     [email |-> "bo@x", name |-> "Bo"]}

BookServiceIds == {"s1", "s2"}

\* the dates the concurrent callers ask for
BookDates == {DateAt(Monday, 0, 0)}

NoQuery == [called |-> FALSE, date |-> 0, dateAfter |-> 0, barberId |-> "", duration |-> 0,
            result |-> [ok |-> TRUE, error |-> "", slots |-> <<>>]]

IdleCaller == [pc |-> "idle", serviceId |-> "", slots |-> <<>>]

\* a weekly configuration that lacks the entry of a weekday
MalformedHours ==
    [d \in (DOMAIN InitBusinessHours) \ {"monday"} |-> InitBusinessHours[d]]

\* no fetchSlots call is running
IdleFetch == [pc |-> "idle", today |-> 0, barberId |-> "", serviceId |-> "",
              i |-> 0, allSlots |-> <<>>, calls |-> <<>>]

\* the component state after mounting
InitView ==
    /\ localHours = InitBusinessHours
    /\ fetch = IdleFetch
    /\ availableSlots = <<>>

\* no call of the store API was made
NoCall == [op |-> "", ok |-> TRUE, error |-> "", data |-> <<>>]

\* the caller holds no object
NoObject == [kind |-> "", value |-> <<>>, shared |-> FALSE]

NoSubmit == [done |-> FALSE, ok |-> FALSE, data |-> <<>>, slot |-> <<>>]

\* apiService.ts: the clients the mock database starts with
InitClients ==
    <<[id |-> "c1", name |-> "John Doe", email |-> "john@example.com",
       password |-> "password123", role |-> "client"],
      [id |-> "c2", name |-> "Jane Smith", email |-> "jane@example.com",
       password |-> "password123", role |-> "client"]>>

\* the absent value of Storage.getItem and of currentUser
null == [null |-> TRUE]

\* the state of the API caller, of BookingView and of AuthProvider after
\* construction, with empty browser storage
InitRest ==
    /\ lastCall = NoCall
    /\ held = NoObject
    /\ step = 1
    /\ selectedServiceId = ""
    /\ selectedBarberId = ""
    /\ selectedSlot = null
    /\ fetchRuns = <<>>
    /\ resetTimers = 0
    /\ submitted = NoSubmit
    /\ mockClients = InitClients
    /\ currentUser = null
    /\ localStorage = [barberapp_user |-> null, barberapp_remember |-> null]
    /\ sessionStorage = [barberapp_user |-> null]
    /\ authCalls = <<>>

-----------------------------------------------------------------------------
(* The store under concurrent API callers *)

Init ==
    /\ mockBarbers = <<>>
    /\ mockAppointments = <<>>
    /\ mockBusinessHours = InitBusinessHours
    /\ callers = [k \in Callers |-> IdleCaller]
    /\ q = NoQuery
    /\ InitView
    /\ InitRest

createBarber(data, id) ==
    /\ Len(mockBarbers) < MaxBarbers
    /\ findByEmail(mockBarbers, data.email) = 0
    /\ mockBarbers' = Append(mockBarbers, [id |-> id, email |-> data.email, name |-> data.name])
    /\ UNCHANGED <<mockAppointments, mockBusinessHours, callers, q>>
    /\ UNCHANGED <<viewVars, apiVars, bookVars, authVars>>

\* a caller asks for the open slots of a barber and a service on a date and
\* receives the list: one complete call of getAvailableTimeSlots
getSlots(k, date, barberId, serviceId) ==
    /\ callers[k].pc = "idle"
    /\ LET r == getAvailableTimeSlots(date, barberId,
                    mockServices[serviceId].durationMinutes,
                    mockBusinessHours, mockAppointments)
       IN  /\ r.ok
           /\ callers' = [callers EXCEPT ![k] =
                    [pc |-> "haveSlots", serviceId |-> serviceId, slots |-> r.slots]]
    /\ UNCHANGED <<mockBarbers, mockAppointments, mockBusinessHours, q>>
    /\ UNCHANGED <<viewVars, apiVars, bookVars, authVars>>

\* a caller books one of the slots it was offered: createAppointment up to
\* its await
createAppointment(k, i) ==
    /\ callers[k].pc = "haveSlots"
    /\ i \in 1..Len(callers[k].slots)
    /\ i <= MaxPick
    /\ Len(mockAppointments) < MaxAppointments
    /\ LET slot == callers[k].slots[i]
           r == createAppointmentOn(
                    [barberId |-> slot.barberId, serviceId |-> callers[k].serviceId,
                     startTime |-> slot.startTime, endTime |-> slot.endTime],
                    mockBarbers, mockAppointments)
       IN  /\ mockAppointments' = r.apps
           /\ callers' = [callers EXCEPT ![k] = IdleCaller]
    /\ UNCHANGED <<mockBarbers, mockBusinessHours, q>>
    /\ UNCHANGED <<viewVars, apiVars, bookVars, authVars>>

Next ==
    \/ \E data \in BarberData, id \in BarberIds : createBarber(data, id)
    \/ \E k \in Callers, date \in BookDates, b \in BarberIds, s \in BookServiceIds :
            getSlots(k, date, b, s)
    \/ \E k \in Callers, i \in 1..MaxPick : createAppointment(k, i)

Spec == Init /\ [][Next]_vars

-----------------------------------------------------------------------------
(* The engine as a function of its inputs *)

InitSlots ==
    /\ mockBarbers = <<>>
    /\ mockAppointments \in SeqsUpTo(AppointmentPool, MaxInitAppointments)
    /\ mockBusinessHours \in HoursInputs \cup {MalformedHours}
    /\ callers = [k \in Callers |-> IdleCaller]
    /\ q = NoQuery
    /\ InitView
    /\ InitRest

\* one complete call of getAvailableTimeSlots; each behaviour applies the
\* engine to one query
computeSlots(date, barberId, duration) ==
    /\ ~q.called
    /\ q' = [called |-> TRUE, date |-> date, dateAfter |-> argAfterGetStartOfDay(date),
             barberId |-> barberId, duration |-> duration,
             result |-> getAvailableTimeSlots(date, barberId, duration,
                                              mockBusinessHours, mockAppointments)]
    /\ UNCHANGED <<mockBarbers, mockAppointments, mockBusinessHours, callers>>
    /\ UNCHANGED <<viewVars, apiVars, bookVars, authVars>>

NextSlots ==
    \E date \in QueryDates, b \in BarberIds, d \in QueryDurations : computeSlots(date, b, d)

SpecSlots == InitSlots /\ [][NextSlots]_vars

-----------------------------------------------------------------------------
(* BookingView: fetchSlots *)

FetchDays == 7

\* the days today, today + 1, ... are asked for at today's time of day
FetchTodays ==
    {DateAt(d, tod[1], tod[2]) :
        d \in {FirstDayNamed("thursday"), Sunday, Monday},
        tod \in {<<0, 0>>, <<15, 37>>}}

\* mutant of fetchDate: the day offset is not added
fetchDate_today(today, i) == today

\* nextDate = new Date(today); nextDate.setDate(today.getDate() + i)
fetchDate(today, i) == today + i * DayMinutes

InitFetch ==
    /\ mockBarbers = <<>>
    /\ mockAppointments = <<>>
    /\ mockBusinessHours \in HoursInputs
    /\ callers = [k \in Callers |-> IdleCaller]
    /\ q = NoQuery
    /\ InitView
    /\ InitRest

\* the effect runs fetchSlots for the selected service and barber: up to the
\* first await
fetchSlotsStart(today, barberId, serviceId) ==
    /\ fetch.pc # "loop"
    /\ serviceId \in DOMAIN mockServices
    /\ barberId # ""
    /\ fetch' = [pc |-> "loop", today |-> today, barberId |-> barberId,
                 serviceId |-> serviceId, i |-> 0, allSlots |-> <<>>, calls |-> <<>>]
    /\ UNCHANGED <<storeVars, callers, q, localHours, availableSlots>>
    /\ UNCHANGED <<apiVars, bookVars, authVars>>

\* one iteration of `for (const date of dates)`: the call for the next date
\* and the continuation after its await; after the last date the list is
\* stored with setAvailableSlots, a failing call ends the loop in the catch
fetchSlotsCall ==
    /\ fetch.pc = "loop"
    /\ fetch.i < FetchDays
    /\ LET date == fetchDate(fetch.today, fetch.i)
           r == getAvailableTimeSlots(date, fetch.barberId,
                    mockServices[fetch.serviceId].durationMinutes,
                    mockBusinessHours, mockAppointments)
           allSlots == fetch.allSlots \o r.slots
           last == fetch.i + 1 = FetchDays
       IN  IF r.ok
           THEN /\ fetch' = [fetch EXCEPT
                        !.pc = IF last THEN "done" ELSE "loop",
                        !.i = fetch.i + 1,
                        !.allSlots = allSlots,
                        !.calls = Append(fetch.calls, [date |-> date, slots |-> r.slots])]
                /\ availableSlots' = IF last THEN allSlots ELSE availableSlots
           ELSE /\ fetch' = [fetch EXCEPT !.pc = "failed"]
                /\ UNCHANGED availableSlots
    /\ UNCHANGED <<storeVars, callers, q, localHours>>
    /\ UNCHANGED <<apiVars, bookVars, authVars>>

NextFetch ==
    \/ \E today \in FetchTodays, b \in BarberIds, s \in BookServiceIds :
            fetchSlotsStart(today, b, s)
    \/ fetchSlotsCall

SpecFetch == InitFetch /\ [][NextFetch]_vars

-----------------------------------------------------------------------------
(* AdminDashboardView: BusinessHoursManager *)

\* the weekdays and the times the administrator enters
EditDays == {"monday"}
TimeValues == {HHMM(0,9,0,0), HHMM(1,1,0,0), HHMM(1,7,0,0)}

\* handleTimeChange(day, type, value)
handleTimeChange(day, type, value) ==
    /\ localHours' = [localHours EXCEPT ![day] =
                        IF type = "open" THEN [localHours[day] EXCEPT !.open = value]
                                         ELSE [localHours[day] EXCEPT !.close = value]]
    /\ localHours' # localHours
    /\ UNCHANGED <<storeVars, callers, q, fetch, availableSlots>>
    /\ UNCHANGED <<apiVars, bookVars, authVars>>

\* handleClosedToggle(day, isChecked)
handleClosedToggle(day, isChecked) ==
    /\ localHours' = [localHours EXCEPT ![day].isClosed = isChecked]
    /\ localHours' # localHours
    /\ UNCHANGED <<storeVars, callers, q, fetch, availableSlots>>
    /\ UNCHANGED <<apiVars, bookVars, authVars>>

\* apiService.ts updateBusinessHours(newHours)
updateBusinessHours(newHours) ==
    /\ mockBusinessHours' = newHours
    /\ UNCHANGED <<mockBarbers, mockAppointments>>

\* handleSubmit: onUpdate(localHours), which is App's
\* handleUpdateBusinessHours and calls updateBusinessHours
handleSubmitHours ==
    /\ updateBusinessHours(localHours)
    /\ mockBusinessHours' # mockBusinessHours
    /\ UNCHANGED <<callers, q, localHours, fetch, availableSlots>>
    /\ UNCHANGED <<apiVars, bookVars, authVars>>

NextHours ==
    \/ \E day \in EditDays, type \in {"open", "close"}, value \in TimeValues :
            handleTimeChange(day, type, value)
    \/ \E day \in EditDays, isChecked \in BOOLEAN : handleClosedToggle(day, isChecked)
    \/ handleSubmitHours

SpecHours == Init /\ [][NextHours]_vars

-----------------------------------------------------------------------------
(* The store API: barbers and appointments *)

\* the names updateBarber is called with
UpdateNames == {"Al", "Zed"}

\* the data createAppointment is called with
AppointmentInputs ==
    {[barberId |-> b, serviceId |-> s, startTime |-> t[1], endTime |-> t[2]] :
        b \in BarberIds, s \in {"s1", "s9"},
        t \in {<<DateAt(Monday, 10, 0), DateAt(Monday, 10, 45)>>,
               <<DateAt(Monday, 10, 45), DateAt(Monday, 10, 0)>>}}

updateBarber(barberId, data) ==
    /\ LET r == updateBarberOn(barberId, data, mockBarbers)
       IN  /\ mockBarbers' = r.barbers
           /\ lastCall' = [op |-> "updateBarber", ok |-> r.ok, error |-> r.error,
                           data |-> <<>>]
    /\ UNCHANGED <<mockAppointments, mockBusinessHours, callers, q, held>>
    /\ UNCHANGED <<viewVars, bookVars, authVars>>

deleteBarber(barberId) ==
    /\ LET r == deleteBarberOn(barberId, mockBarbers, mockAppointments)
       IN  /\ mockBarbers' = r.barbers
           /\ mockAppointments' = r.apps
           /\ lastCall' = [op |-> "deleteBarber", ok |-> r.ok, error |-> r.error,
                           data |-> [barberId |-> barberId]]
    /\ UNCHANGED <<mockBusinessHours, callers, q, held>>
    /\ UNCHANGED <<viewVars, bookVars, authVars>>

\* createAppointment(data), called directly
createAppointmentCall(data) ==
    /\ LET r == createAppointmentOn(data, mockBarbers, mockAppointments)
       IN  /\ r.ok => Len(mockAppointments) < MaxAppointments
           /\ mockAppointments' = r.apps
           /\ lastCall' = [op |-> "createAppointment", ok |-> r.ok, error |-> r.error,
                           data |-> data]
    /\ UNCHANGED <<mockBarbers, mockBusinessHours, callers, q, held>>
    /\ UNCHANGED <<viewVars, bookVars, authVars>>

NextStore ==
    \/ \E data \in BarberData, id \in BarberIds : createBarber(data, id)
    \/ \E id \in BarberIds, name \in UpdateNames : updateBarber(id, [name |-> name])
    \/ \E id \in BarberIds : deleteBarber(id)
    \/ \E data \in AppointmentInputs : createAppointmentCall(data)

SpecStore == Init /\ [][NextStore]_vars

-----------------------------------------------------------------------------
(* The store API: the objects a caller passes in and gets back *)

\* simulateDelay's JSON.parse(JSON.stringify(mockBusinessHours)): a new object
\* with the same strings and booleans
cloneHours(hours) ==
    [d \in DOMAIN hours |->
        [open |-> hours[d].open, close |-> hours[d].close, isClosed |-> hours[d].isClosed]]

\* simulateDelay's clone of the new appointment and the re-hydration of its dates
cloneAppointment(app) ==
    [app EXCEPT !.startTime = parseISO(toISOString(app.startTime)),
                !.endTime = parseISO(toISOString(app.endTime))]

InitSnapshots ==
    /\ mockBarbers = <<[id |-> "b1", email |-> "al@x", name |-> "Al"]>>
    /\ mockAppointments = <<>>
    /\ mockBusinessHours = InitBusinessHours
    /\ callers = [k \in Callers |-> IdleCaller]
    /\ q = NoQuery
    /\ InitView
    /\ InitRest

\* getBusinessHours(): the caller receives a clone
getBusinessHoursCall ==
    /\ held' = [kind |-> "hours", value |-> cloneHours(mockBusinessHours), shared |-> FALSE]
    /\ held' # held
    /\ lastCall' = [op |-> "getBusinessHours", ok |-> TRUE, error |-> "", data |-> <<>>]
    /\ UNCHANGED <<storeVars, callers, q, viewVars, bookVars, authVars>>

\* updateBusinessHours(newHours) with the object the caller holds: the store
\* variable is assigned that very object
updateBusinessHoursCall ==
    /\ held.kind = "hours"
    /\ updateBusinessHours(held.value)
    /\ held' = [held EXCEPT !.shared = TRUE]
    /\ lastCall' = [op |-> "updateBusinessHours", ok |-> TRUE, error |-> "", data |-> <<>>]
    /\ <<held, mockBusinessHours>>' # <<held, mockBusinessHours>>
    /\ UNCHANGED <<callers, q, viewVars, bookVars, authVars>>

\* getAvailableTimeSlots(date, barberId, duration): the caller receives the
\* cloned, re-hydrated list
getAvailableTimeSlotsCall(date, barberId, serviceId) ==
    /\ LET r == getAvailableTimeSlots(date, barberId,
                    mockServices[serviceId].durationMinutes,
                    mockBusinessHours, mockAppointments)
       IN  /\ r.ok
           /\ held' = [kind |-> "slots", value |-> r.slots, shared |-> FALSE]
    /\ held' # held
    /\ lastCall' = [op |-> "getAvailableTimeSlots", ok |-> TRUE, error |-> "", data |-> <<>>]
    /\ UNCHANGED <<storeVars, callers, q, viewVars, bookVars, authVars>>

\* createAppointment(data): the caller receives a clone of the stored
\* appointment
createAppointmentReturn(data) ==
    /\ Len(mockAppointments) < MaxAppointments
    /\ LET r == createAppointmentOn(data, mockBarbers, mockAppointments)
       IN  /\ r.ok
           /\ mockAppointments' = r.apps
           /\ held' = [kind |-> "appointment",
                       value |-> cloneAppointment(r.apps[Len(r.apps)]),
                       shared |-> FALSE]
    /\ lastCall' = [op |-> "createAppointment", ok |-> TRUE, error |-> "", data |-> data]
    /\ UNCHANGED <<mockBarbers, mockBusinessHours, callers, q, viewVars, bookVars, authVars>>

\* the values one assignment to a field of the held object can give it
Mutations(h) ==
    IF h.kind = "hours"
    THEN {[h.value EXCEPT !.monday = o] : o \in HoursOptions}
    ELSE IF h.kind = "slots"
    THEN IF Len(h.value) = 0 THEN {}
         ELSE {[h.value EXCEPT ![1].startTime = DateAt(Monday, 8, 0)],
               [h.value EXCEPT ![1].barberId = "b2"]}
    ELSE IF h.kind = "appointment"
    THEN {[h.value EXCEPT !.endTime = h.value.startTime],
          [h.value EXCEPT !.status = CANCELLED]}
    ELSE {}

\* the caller assigns to a field of the object it holds; an object the store
\* shares changes in the store as well
mutateHeld ==
    /\ \E v \in Mutations(held) :
            /\ v # held.value
            /\ held' = [held EXCEPT !.value = v]
            /\ mockBusinessHours' =
                    IF held.shared /\ held.kind = "hours" THEN v ELSE mockBusinessHours
    /\ UNCHANGED <<mockBarbers, mockAppointments, lastCall>>
    /\ UNCHANGED <<callers, q, viewVars, bookVars, authVars>>

NextSnapshots ==
    \/ getBusinessHoursCall
    \/ updateBusinessHoursCall
    \/ \E s \in BookServiceIds : getAvailableTimeSlotsCall(DateAt(Monday, 0, 0), "b1", s)
    \/ \E data \in AppointmentInputs : createAppointmentReturn(data)
    \/ mutateHeld

SpecSnapshots == InitSnapshots /\ [][NextSnapshots]_vars

-----------------------------------------------------------------------------
(* BookingView: the booking flow *)

\* `new Date()` in fetchSlots
BookingToday == DateAt(Monday, 15, 37)

\* the positions in the displayed list the user clicks on
SlotPicks == {1}

\* the barbers the application has loaded
InitBooking ==
    /\ mockBarbers = <<[id |-> "b1", email |-> "al@x", name |-> "Al"],
                       [id |-> "b2", email |-> "bo@x", name |-> "Bo"]>>
    /\ mockAppointments = <<>>
    /\ mockBusinessHours = InitBusinessHours
    /\ callers = [k \in Callers |-> IdleCaller]
    /\ q = NoQuery
    /\ InitView
    /\ InitRest

\* the effect on [step, selectedServiceId, selectedBarberId]: after a render
\* that changed one of them, fetchSlots is started when step is 3 and a
\* service and a barber are selected; the call keeps the values it was
\* started with
effectFetchSlots(step2, serviceId2, barberId2) ==
    LET starts == /\ <<step2, serviceId2, barberId2>>
                        # <<step, selectedServiceId, selectedBarberId>>
                  /\ step2 = 3
                  /\ serviceId2 \in DOMAIN mockServices
                  /\ barberId2 # ""
    IN  /\ starts => Len(fetchRuns) < MaxFetchRuns
        /\ fetchRuns' = IF starts
                        THEN Append(fetchRuns, [barberId |-> barberId2, serviceId |-> serviceId2,
                                                i |-> 0, allSlots |-> <<>>])
                        ELSE fetchRuns

handleServiceSelect(serviceId) ==
    /\ step = 1
    /\ selectedServiceId' = serviceId
    /\ selectedBarberId' = ""
    /\ availableSlots' = <<>>
    /\ selectedSlot' = null
    /\ step' = 2
    /\ effectFetchSlots(2, serviceId, "")
    /\ UNCHANGED <<storeVars, callers, q, localHours, fetch, apiVars, authVars>>
    /\ UNCHANGED <<resetTimers, submitted>>

handleBarberSelect(barberId) ==
    /\ step = 2
    /\ selectedServiceId \in DOMAIN mockServices
    /\ \E i \in 1..Len(mockBarbers) : mockBarbers[i].id = barberId
    /\ selectedBarberId' = barberId
    /\ availableSlots' = <<>>
    /\ selectedSlot' = null
    /\ step' = 3
    /\ effectFetchSlots(3, selectedServiceId, barberId)
    /\ UNCHANGED <<storeVars, callers, q, localHours, fetch, apiVars, authVars>>
    /\ UNCHANGED <<selectedServiceId, resetTimers, submitted>>

handleSlotSelect(i) ==
    /\ step = 3
    /\ selectedServiceId \in DOMAIN mockServices
    /\ selectedBarberId # ""
    /\ i \in 1..Len(availableSlots)
    /\ selectedSlot' = availableSlots[i]
    /\ step' = 4
    /\ effectFetchSlots(4, selectedServiceId, selectedBarberId)
    /\ UNCHANGED <<storeVars, callers, q, localHours, fetch, apiVars, authVars>>
    /\ UNCHANGED <<selectedServiceId, selectedBarberId, availableSlots, resetTimers, submitted>>

\* the "back" buttons of the steps 2, 3 and 4: setStep(step - 1)
backButton ==
    /\ step \in {2, 3, 4}
    /\ selectedServiceId \in DOMAIN mockServices
    /\ step > 2 => selectedBarberId # ""
    /\ step > 3 => selectedSlot # null
    /\ step' = step - 1
    /\ effectFetchSlots(step - 1, selectedServiceId, selectedBarberId)
    /\ UNCHANGED <<storeVars, callers, q, localHours, fetch, apiVars, authVars>>
    /\ UNCHANGED <<selectedServiceId, selectedBarberId, selectedSlot, availableSlots,
                   resetTimers, submitted>>

\* resetBookingFlow(); availableSlots is not among the states it sets
resetBookingFlow ==
    /\ step' = 1
    /\ selectedServiceId' = ""
    /\ selectedBarberId' = ""
    /\ selectedSlot' = null
    /\ effectFetchSlots(1, "", "")
    /\ UNCHANGED availableSlots

\* one await of a running fetchSlots call returns and the next call is made;
\* after the last one the list is stored. The calls wait equally long, so a
\* call started earlier is never behind one started later.
fetchRunStep(k) ==
    /\ k \in 1..Len(fetchRuns)
    /\ \A j \in 1..(k - 1) : fetchRuns[j].i > fetchRuns[k].i
    /\ LET run == fetchRuns[k]
           r == getAvailableTimeSlots(fetchDate(BookingToday, run.i), run.barberId,
                    mockServices[run.serviceId].durationMinutes,
                    mockBusinessHours, mockAppointments)
           allSlots == run.allSlots \o r.slots
       IN  IF r.ok /\ run.i + 1 < FetchDays
           THEN /\ fetchRuns' = [fetchRuns EXCEPT ![k] =
                                    [run EXCEPT !.i = run.i + 1, !.allSlots = allSlots]]
                /\ UNCHANGED availableSlots
           ELSE /\ fetchRuns' = splice(fetchRuns, k)
                /\ availableSlots' = IF r.ok THEN allSlots ELSE availableSlots
    /\ UNCHANGED <<storeVars, callers, q, localHours, fetch, apiVars, authVars>>
    /\ UNCHANGED <<step, selectedServiceId, selectedBarberId, selectedSlot,
                   resetTimers, submitted>>

\* App.handleCreateAppointment(appointmentData): the outcome and the
\* appointment list it leaves
handleCreateAppointment(appointmentData, barbers, apps) ==
    LET serviceFound == appointmentData.serviceId \in DOMAIN mockServices
        barberFound == findIndex(barbers, appointmentData.barberId) # 0
    IN  IF ~serviceFound \/ ~barberFound
        THEN [ok |-> FALSE, error |-> "selectedServiceOrBarberNotFound", apps |-> apps]
        ELSE createAppointmentOn([appointmentData EXCEPT !.barberId = ""], barbers, apps)

\* what handleSubmit passes to onCreateAppointment
submitData ==
    [barberId  |-> selectedBarberId,
     serviceId |-> selectedServiceId,
     startTime |-> selectedSlot.startTime,
     endTime   |-> selectedSlot.endTime]

\* handleSubmit with App.handleCreateAppointment as onCreateAppointment
handleSubmitApp ==
    /\ step = 4
    /\ selectedServiceId \in DOMAIN mockServices
    /\ selectedBarberId # ""
    /\ selectedSlot # null
    /\ LET r == handleCreateAppointment(submitData, mockBarbers, mockAppointments)
       IN  /\ r.ok => (Len(mockAppointments) < MaxAppointments /\ resetTimers < MaxResetTimers)
           /\ mockAppointments' = r.apps
           /\ submitted' = [done |-> TRUE, ok |-> r.ok,
                            data |-> [submitData EXCEPT !.barberId = selectedBarberId],
                            slot |-> selectedSlot]
           /\ step' = IF r.ok THEN 5 ELSE step
           /\ resetTimers' = IF r.ok THEN resetTimers + 1 ELSE resetTimers
           /\ effectFetchSlots(IF r.ok THEN 5 ELSE step, selectedServiceId, selectedBarberId)
    /\ UNCHANGED <<mockBarbers, mockBusinessHours, callers, q, localHours, fetch,
                   apiVars, authVars>>
    /\ UNCHANGED <<selectedServiceId, selectedBarberId, selectedSlot, availableSlots>>

NextBooking ==
    \/ \E s \in BookServiceIds : handleServiceSelect(s)
    \/ \E b \in BarberIds : handleBarberSelect(b)
    \/ \E i \in SlotPicks : handleSlotSelect(i)
    \/ backButton
    \/ \E k \in 1..MaxFetchRuns : fetchRunStep(k)
    \/ handleSubmitApp

SpecBooking == InitBooking /\ [][NextBooking]_vars

-----------------------------------------------------------------------------
(* BookingView with any onCreateAppointment: the confirmation screen *)

\* handleSubmit with an onCreateAppointment that resolves (ok) or rejects
handleSubmitProp(ok) ==
    /\ step = 4
    /\ selectedServiceId \in DOMAIN mockServices
    /\ selectedBarberId # ""
    /\ selectedSlot # null
    /\ ok => resetTimers < MaxResetTimers
    /\ submitted' = [done |-> TRUE, ok |-> ok, data |-> submitData, slot |-> selectedSlot]
    /\ step' = IF ok THEN 5 ELSE step
    /\ resetTimers' = IF ok THEN resetTimers + 1 ELSE resetTimers
    /\ effectFetchSlots(IF ok THEN 5 ELSE step, selectedServiceId, selectedBarberId)
    /\ <<submitted, step>>' # <<submitted, step>>
    /\ UNCHANGED <<storeVars, callers, q, localHours, fetch, apiVars, authVars>>
    /\ UNCHANGED <<selectedServiceId, selectedBarberId, selectedSlot, availableSlots>>

\* the "book another appointment" button of step 5: resetBookingFlow
bookAnother ==
    /\ step = 5
    /\ resetBookingFlow
    /\ UNCHANGED <<storeVars, callers, q, localHours, fetch, apiVars, authVars>>
    /\ UNCHANGED <<resetTimers, submitted>>

\* the timer set by handleSubmit 5 seconds ago fires: resetBookingFlow
resetTimerFires ==
    /\ resetTimers > 0
    /\ resetTimers' = resetTimers - 1
    /\ resetBookingFlow
    /\ UNCHANGED <<storeVars, callers, q, localHours, fetch, apiVars, authVars>>
    /\ UNCHANGED submitted

NextBookingView ==
    \/ handleServiceSelect("s1")
    \/ handleBarberSelect("b1")
    \/ \E i \in SlotPicks : handleSlotSelect(i)
    \/ backButton
    \/ \E k \in 1..MaxFetchRuns : fetchRunStep(k)
    \/ \E ok \in BOOLEAN : handleSubmitProp(ok)
    \/ bookAnother
    \/ resetTimerFires

SpecBookingView == InitBooking /\ [][NextBookingView]_vars

-----------------------------------------------------------------------------
(* AuthContext: AuthProvider *)

\* apiService.ts: the administrators of the mock database
mockAdmins ==
    <<[id |-> "a1", name |-> "Admin User", email |-> "admin", password |-> "admin",
       role |-> "admin"]>>

\* const { password: _, ...userWithoutPassword } = user
withoutPassword(user) ==
    [id |-> user.id, name |-> user.name, email |-> user.email, role |-> user.role]

\* JSON.stringify(value), as stored under a Storage key
JSONstringify(value) == [json |-> value]

\* apiService.ts login(email, password, role): what the promise settles with
apiLogin(email, password, role, clients) ==
    LET userPool == IF role = "client" THEN clients
                    ELSE IF role = "admin" THEN mockAdmins
                    ELSE <<>>
        found == {i \in 1..Len(userPool) :
                    /\ toLowerCase(userPool[i].email) = toLowerCase(email)
                    /\ userPool[i].password = password}
    IN  IF found # {}
        THEN [ok |-> TRUE, error |-> "",
              user |-> withoutPassword(userPool[CHOOSE i \in found : \A j \in found : i <= j])]
        ELSE [ok |-> FALSE, error |-> "Invalid credentials", user |-> null]

\* apiService.ts registerClient(name, email, phone, password): the outcome and
\* the client list it leaves
apiRegisterClient(name, email, password, id, clients) ==
    IF \E i \in 1..Len(clients) : toLowerCase(clients[i].email) = toLowerCase(email)
    THEN [ok |-> FALSE, error |-> "Email already exists", user |-> null, clients |-> clients]
    ELSE LET newClient == [id |-> id, name |-> name, email |-> email,
                           password |-> password, role |-> "client"]
         IN  [ok |-> TRUE, error |-> "", user |-> withoutPassword(newClient),
              clients |-> Append(clients, newClient)]

\* mutant of loginStorage: the session copy is kept when the user is remembered
loginStorage_keepSession(user, email, role, rememberMe, local, session) ==
    IF rememberMe
    THEN [local |-> [barberapp_user |-> JSONstringify(user),
                     barberapp_remember |-> JSONstringify([email |-> email, role |-> role])],
          session |-> session]
    ELSE [local |-> [barberapp_user |-> null, barberapp_remember |-> null],
          session |-> [barberapp_user |-> JSONstringify(user)]]

\* AuthProvider.login after the await: the Storage calls of both branches
loginStorage(user, email, role, rememberMe, local, session) ==
    IF rememberMe
    THEN [local |-> [barberapp_user |-> JSONstringify(user),
                     barberapp_remember |-> JSONstringify([email |-> email, role |-> role])],
          session |-> [barberapp_user |-> null]]
    ELSE [local |-> [barberapp_user |-> null, barberapp_remember |-> null],
          session |-> [barberapp_user |-> JSONstringify(user)]]

\* the credentials entered in the login form
LoginInputs ==
    {[email |-> "john@example.com", password |-> "password123", role |-> "client"],
     [email |-> "john@example.com", password |-> "wrong", role |-> "client"],
     [email |-> "admin", password |-> "admin", role |-> "admin"],
     [email |-> "admin", password |-> "admin", role |-> "barber"]}

\* the data entered in the registration form
RegisterInputs ==
    {[name |-> "Neo", email |-> "neo@example.com", password |-> "pw"],
     [name |-> "Jon", email |-> "john@example.com", password |-> "pw"]}

\* AuthProvider.login up to its await: apiLogin is called
loginCall(in, rememberMe) ==
    /\ Len(authCalls) < MaxAuthCalls
    /\ authCalls' = Append(authCalls,
            [op |-> "login", email |-> in.email, role |-> in.role, rememberMe |-> rememberMe,
             result |-> apiLogin(in.email, in.password, in.role, mockClients)])
    /\ UNCHANGED <<mockClients, currentUser, localStorage, sessionStorage>>
    /\ UNCHANGED <<storeVars, callers, q, viewVars, apiVars, bookVars>>

\* AuthProvider.register up to its await: apiRegisterClient is called
registerCall(in, id) ==
    /\ Len(authCalls) < MaxAuthCalls
    /\ LET r == apiRegisterClient(in.name, in.email, in.password, id, mockClients)
       IN  /\ mockClients' = r.clients
           /\ authCalls' = Append(authCalls,
                    [op |-> "register", email |-> in.email, role |-> "client",
                     rememberMe |-> TRUE,
                     result |-> [ok |-> r.ok, error |-> r.error, user |-> r.user]])
    /\ UNCHANGED <<currentUser, localStorage, sessionStorage>>
    /\ UNCHANGED <<storeVars, callers, q, viewVars, apiVars, bookVars>>

\* the await of a login or register call returns: the rest of the handler
authReturn(k) ==
    /\ k \in 1..Len(authCalls)
    /\ LET call == authCalls[k]
           r == call.result
           stored == IF call.op = "login"
                     THEN loginStorage(r.user, call.email, call.role, call.rememberMe,
                                       localStorage, sessionStorage)
                     ELSE [local |-> [barberapp_user |-> JSONstringify(r.user),
                                      barberapp_remember |->
                                          JSONstringify([email |-> r.user.email,
                                                         role |-> r.user.role])],
                           session |-> [barberapp_user |-> null]]
       IN  /\ authCalls' = splice(authCalls, k)
           /\ lastCall' = [op |-> call.op, ok |-> r.ok, error |-> r.error, data |-> <<>>]
           /\ IF r.ok
              THEN /\ currentUser' = r.user
                   /\ localStorage' = stored.local
                   /\ sessionStorage' = stored.session
              ELSE UNCHANGED <<currentUser, localStorage, sessionStorage>>
    /\ UNCHANGED <<storeVars, callers, q, viewVars, held, bookVars, mockClients>>

\* AuthProvider.logout
logout ==
    /\ currentUser' = null
    /\ sessionStorage' = [barberapp_user |-> null]
    /\ localStorage' = [barberapp_user |-> null, barberapp_remember |-> null]
    /\ lastCall' = [op |-> "logout", ok |-> TRUE, error |-> "", data |-> <<>>]
    /\ UNCHANGED <<storeVars, callers, q, viewVars, held, bookVars, mockClients, authCalls>>

NextAuth ==
    \/ \E in \in LoginInputs, rememberMe \in BOOLEAN : loginCall(in, rememberMe)
    \/ \E in \in RegisterInputs : registerCall(in, "c9")
    \/ \E k \in 1..MaxAuthCalls : authReturn(k)
    \/ logout

SpecAuth == Init /\ [][NextAuth]_vars

-----------------------------------------------------------------------------
(* Vocabulary of the properties *)

\* half-open intervals [s1, e1) and [s2, e2) overlap
Overlap(s1, e1, s2, e2) == s1 < e2 /\ s2 < e1

\* the two intervals share a stretch of time of positive length
SharePositiveTime(s1, e1, s2, e2) ==
    (IF s1 > s2 THEN s1 ELSE s2) < (IF e1 < e2 THEN e1 ELSE e2)

SameCalendarDay(t1, t2) == t1 \div DayMinutes = t2 \div DayMinutes

\* the last query: its weekday's hours, opening and closing time
QDayName == DayNames[getDay(q.date) + 1]
QHours == mockBusinessHours[QDayName]
QOpen == openingTimeOf(getStartOfDay(q.date), QHours)
QClose == closingTimeOf(getStartOfDay(q.date), QHours)
QSlots == q.result.slots
QStarts == {QSlots[i].startTime : i \in 1..Len(QSlots)}
QAnswered == q.called /\ q.result.ok
QOpenDay == QAnswered /\ ~QHours.isClosed

\* the candidate start times between an opening and a closing time
Grid(open, close) ==
    {t \in {open + GridStep * k : k \in 0..(DayMinutes \div GridStep)} : t < close}

\* the candidate start times of the last query
QGrid == Grid(QOpen, QClose)

\* the appointments that block the barber of the last query on its day
Blocks(app) ==
    /\ app.status = SCHEDULED
    /\ app.barberId = q.barberId
    /\ SameCalendarDay(app.startTime, q.date)

Stored == {mockAppointments[i] : i \in 1..Len(mockAppointments)}

\* the slot [t, t + duration) of the last query is free of blocking appointments
FreeAt(t) ==
    \A app \in Stored :
        Blocks(app) => ~Overlap(t, t + q.duration, app.startTime, app.endTime)

\* what the engine answers to the last query when the store holds apps
Answer(apps) ==
    getAvailableTimeSlots(q.date, q.barberId, q.duration, mockBusinessHours, apps)

Without(apps, i) == SubSeq(apps, 1, i - 1) \o SubSeq(apps, i + 1, Len(apps))

-----------------------------------------------------------------------------
(* Properties *)

\* C1: in every reachable state no two Scheduled appointments of the same
\* barber overlap (half-open intervals), even when two callers were offered
\* the same open slot and both book it.
C1_NoDoubleBooking ==
    \A i, j \in 1..Len(mockAppointments) :
        (/\ i < j
         /\ mockAppointments[i].status = SCHEDULED
         /\ mockAppointments[j].status = SCHEDULED
         /\ mockAppointments[i].barberId = mockAppointments[j].barberId)
        => ~Overlap(mockAppointments[i].startTime, mockAppointments[i].endTime,
                    mockAppointments[j].startTime, mockAppointments[j].endTime)

\* C2: for a positive duration, no returned slot overlaps a Scheduled
\* appointment of the queried barber that starts on the queried calendar day.
C2_NoSlotOverlapsScheduled ==
    (QAnswered /\ q.duration > 0) =>
        \A i \in 1..Len(QSlots) : \A app \in Stored :
            Blocks(app) => ~Overlap(QSlots[i].startTime, QSlots[i].endTime,
                                    app.startTime, app.endTime)

\* C2 witness: a positive-duration query returned slots while a blocking
\* appointment removed a candidate that fits into the opening hours.
C2_Witness ==
    /\ QOpenDay /\ q.duration > 0
    /\ Len(QSlots) > 0
    /\ \E t \in QGrid : t + q.duration <= QClose /\ ~FreeAt(t)

\* C3: on an open day the returned start times are exactly the grid times
\* opening + 15k (k >= 0) that lie before closing, end by closing and are free
\* of blocking appointments.
C3_ExactlyReferenceSet ==
    QOpenDay =>
        LET open == QOpen
            close == QClose
        IN  QStarts = {t \in Grid(open, close) : t + q.duration <= close /\ FreeAt(t)}

\* C3 witness: a query whose result is not empty, with one candidate dropped
\* for running past closing and another dropped for a conflict.
C3_Witness ==
    /\ QOpenDay
    /\ Len(QSlots) > 0
    /\ \E t \in QGrid : t + q.duration > QClose
    /\ \E t \in QGrid : t + q.duration <= QClose /\ ~FreeAt(t)

\* C4: when the queried weekday is closed the result is the empty sequence,
\* whatever appointments and whatever open/close pair are stored.
C4_ClosedDayEmpty ==
    (q.called /\ QDayName \in DOMAIN mockBusinessHours /\ QHours.isClosed) =>
        (q.result.ok /\ q.result.slots = <<>>)

\* C4 witness: a closed Monday that stores a valid-looking 09:00-17:00 pair
\* was queried while appointments exist.
C4_Witness ==
    /\ QAnswered /\ QHours.isClosed
    /\ QDayName = "monday"
    /\ QHours.open = HHMM(0,9,0,0) /\ QHours.close = HHMM(1,7,0,0)
    /\ Len(mockAppointments) > 0
    /\ q.duration > 0

\* C5: every returned slot starts at or after opening time and ends at or
\* before closing time.
C5_WithinBusinessHours ==
    QOpenDay =>
        LET open == QOpen
            close == QClose
        IN  \A i \in 1..Len(QSlots) :
                QSlots[i].startTime >= open /\ QSlots[i].endTime <= close

\* C5 witness: a returned slot ends exactly at closing time and the next
\* candidate, which would run past closing, is absent.
C5_Witness ==
    /\ QOpenDay /\ q.duration > 0
    /\ \E i \in 1..Len(QSlots) : QSlots[i].endTime = QClose
    /\ \E t \in QGrid : t + q.duration > QClose

\* C6: every returned slot lasts exactly serviceDurationMinutes and carries the
\* queried barberId.
C6_SlotDurationAndBarber ==
    QAnswered =>
        \A i \in 1..Len(QSlots) :
            /\ QSlots[i].endTime - QSlots[i].startTime = q.duration
            /\ QSlots[i].barberId = q.barberId

\* C6 witness: a query with a duration that is not a multiple of the grid step
\* returned slots.
C6_Witness ==
    /\ QAnswered /\ Len(QSlots) > 0
    /\ q.duration % GridStep # 0

\* the scenario of C7: Monday 09:00-17:00, barber b1 has the single
\* appointment 10:00-10:45, the query is for b1 and 30 minutes
C7_Scenario ==
    /\ QOpenDay
    /\ q.barberId = "b1" /\ q.duration = 30 /\ QDayName = "monday"
    /\ QHours.open = HHMM(0,9,0,0) /\ QHours.close = HHMM(1,7,0,0)
    /\ mockAppointments =
          <<Appt("b1", DateAt(Monday, 10, 0), DateAt(Monday, 10, 45), SCHEDULED)>>

\* C7: a candidate that fits into the opening hours and only touches blocking
\* appointments (ends where one starts, or starts where one ends) is returned,
\* a candidate that shares time of positive length with one is not; with the
\* appointment 10:00-10:45 and a 30-minute service 09:45 is excluded and 10:45
\* and 09:30 are returned.
C7_TouchingIsNoConflict ==
    /\ (QOpenDay /\ q.duration > 0) =>
            LET open == QOpen
                close == QClose
                starts == QStarts
                blocking == {app \in Stored : Blocks(app)}
            IN  \A t \in Grid(open, close) :
                    t + q.duration <= close =>
                        (t \in starts <=>
                            ~\E app \in blocking :
                                SharePositiveTime(t, t + q.duration,
                                                  app.startTime, app.endTime))
    /\ C7_Scenario =>
            /\ DateAt(Monday, 9, 45) \notin QStarts
            /\ DateAt(Monday, 10, 45) \in QStarts
            /\ DateAt(Monday, 9, 30) \in QStarts

\* C7 witness: the scenario was queried.
C7_Witness == C7_Scenario

NotScheduled(app) == app.status # SCHEDULED

\* the appointment lists that differ from the stored one by one appointment
\* that is not Scheduled: one removed, one added, one replaced
NonScheduledVariations ==
    {Without(mockAppointments, i) :
        i \in {j \in 1..Len(mockAppointments) : NotScheduled(mockAppointments[j])}}
    \cup {Append(mockAppointments, app) : app \in {a \in AppointmentPool : NotScheduled(a)}}
    \cup {[mockAppointments EXCEPT ![i] = app] :
            i \in {j \in 1..Len(mockAppointments) : NotScheduled(mockAppointments[j])},
            app \in {a \in AppointmentPool : NotScheduled(a)}}

\* C8: only Scheduled appointments block: removing, adding or changing an
\* appointment that is Cancelled, Completed or No Show leaves the answer to
\* the query unchanged, as does removing all of them.
C8_OnlyScheduledBlocks ==
    q.called =>
        /\ \A apps \in NonScheduledVariations : Answer(apps) = q.result
        /\ Answer(SelectSeq(mockAppointments, LAMBDA app : ~NotScheduled(app))) = q.result

\* C8 witness: an appointment of the queried barber and day that is not
\* Scheduled covers a returned slot.
C8_Witness ==
    /\ QOpenDay /\ q.duration > 0
    /\ \E app \in Stored : \E i \in 1..Len(QSlots) :
            /\ NotScheduled(app)
            /\ app.barberId = q.barberId
            /\ SameCalendarDay(app.startTime, q.date)
            /\ Overlap(QSlots[i].startTime, QSlots[i].endTime, app.startTime, app.endTime)

\* C9: appointments of other barbers remove no slot: the answer equals the
\* answer with every appointment of another barber deleted.
C9_OtherBarbersIgnored ==
    q.called =>
        Answer(SelectSeq(mockAppointments, LAMBDA app : app.barberId = q.barberId)) = q.result

\* C9 witness: a Scheduled appointment of another barber on the queried day
\* covers a returned slot.
C9_Witness ==
    /\ QOpenDay /\ q.duration > 0
    /\ \E app \in Stored : \E i \in 1..Len(QSlots) :
            /\ app.status = SCHEDULED
            /\ app.barberId # q.barberId
            /\ SameCalendarDay(app.startTime, q.date)
            /\ Overlap(QSlots[i].startTime, QSlots[i].endTime, app.startTime, app.endTime)

\* C10: a Scheduled appointment of the queried barber that starts on another
\* calendar day removes no slot: the answer equals the answer with every
\* appointment that starts on another day deleted.
C10_OtherDaysIgnored ==
    q.called =>
        Answer(SelectSeq(mockAppointments,
                    LAMBDA app : SameCalendarDay(app.startTime, q.date))) = q.result

\* C10 witness: a Scheduled appointment of the queried barber that starts the
\* day before and runs into the queried day covers a returned slot.
C10_Witness ==
    /\ QOpenDay /\ q.duration > 0
    /\ \E app \in Stored : \E i \in 1..Len(QSlots) :
            /\ app.status = SCHEDULED
            /\ app.barberId = q.barberId
            /\ ~SameCalendarDay(app.startTime, q.date)
            /\ Overlap(QSlots[i].startTime, QSlots[i].endTime, app.startTime, app.endTime)

\* the start of the calendar day of a time
DayStart(t) == (t \div DayMinutes) * DayMinutes

\* Monday is open 09:00-17:00 and was queried
MondayNineToFive ==
    /\ QOpenDay
    /\ QDayName = "monday"
    /\ QHours.open = HHMM(0,9,0,0) /\ QHours.close = HHMM(1,7,0,0)

\* the scenario of C11: a 45-minute service, opening on the hour, nothing
\* blocks the barber
C11_Scenario ==
    /\ MondayNineToFive
    /\ q.duration = 45
    /\ \A app \in Stored : ~Blocks(app)

\* C11: every returned slot starts at opening time plus a whole multiple of
\* 15 minutes, whatever the duration; a 45-minute service is offered at :00,
\* :15, :30 and :45.
C11_StartsOnGrid ==
    /\ QOpenDay =>
            LET open == QOpen
            IN  \A i \in 1..Len(QSlots) :
                    /\ QSlots[i].startTime >= open
                    /\ (QSlots[i].startTime - open) % GridStep = 0
    /\ C11_Scenario =>
            {DateAt(Monday, 9, 0), DateAt(Monday, 9, 15),
             DateAt(Monday, 9, 30), DateAt(Monday, 9, 45)} \subseteq QStarts

\* C11 witness: the 45-minute scenario was queried.
C11_Witness == C11_Scenario

\* C12: the returned sequence is strictly ascending in startTime.
C12_StrictlyAscending ==
    QAnswered =>
        \A i, j \in 1..Len(QSlots) :
            i < j => QSlots[i].startTime < QSlots[j].startTime

\* C12 witness: a result with a gap: two neighbours in the sequence are more
\* than one grid step apart.
C12_Witness ==
    /\ QAnswered
    /\ \E i \in 1..(Len(QSlots) - 1) :
            QSlots[i + 1].startTime - QSlots[i].startTime > GridStep

\* the scenario of C13: Monday 09:00-17:00, no appointments, 45 minutes
C13_Scenario ==
    /\ MondayNineToFive
    /\ q.duration = 45
    /\ mockAppointments = <<>>

\* C13: with hours 09:00-17:00, no appointments and a 45-minute service the
\* starts are exactly 09:00, 09:15, ..., 16:15 (30 slots); 16:30 and 16:45 are
\* not returned.
C13_NineToFiveFortyFive ==
    C13_Scenario =>
        /\ Len(QSlots) = 30
        /\ \A i \in 1..Len(QSlots) :
                QSlots[i].startTime = DateAt(Monday, 9, 0) + GridStep * (i - 1)
        /\ QSlots[Len(QSlots)].startTime = DateAt(Monday, 16, 15)
        /\ DateAt(Monday, 16, 30) \notin QStarts
        /\ DateAt(Monday, 16, 45) \notin QStarts

\* C13 witness: the scenario was queried.
C13_Witness == C13_Scenario

\* C14: a call with serviceDurationMinutes <= 0 fails with an
\* InvalidInputError; it never returns a list of slots.
C14_NonPositiveDurationRejected ==
    (q.called /\ q.duration <= 0) =>
        (~q.result.ok /\ q.result.error = "InvalidInputError")

\* C15: when the configuration has no entry for the weekday of the queried
\* date the call fails with a ConfigurationError raised to the caller.
C15_MissingWeekdayRejected ==
    (q.called /\ QDayName \notin DOMAIN mockBusinessHours) =>
        (~q.result.ok /\ q.result.error = "ConfigurationError")

\* C17: a call of getAvailableTimeSlots changes neither the appointments,
\* the business hours, the barbers nor the caller's date argument, whether it
\* returns slots, an empty list or fails.
C17_NoSideEffects ==
    [][(~q.called /\ q'.called) =>
            /\ mockAppointments' = mockAppointments
            /\ mockBusinessHours' = mockBusinessHours
            /\ mockBarbers' = mockBarbers
            /\ q'.dateAfter = q'.date]_vars

\* C17 witness: a call with a date that carries a time of day returned slots
\* while appointments are stored.
C17_Witness ==
    /\ QAnswered
    /\ q.date % DayMinutes # 0
    /\ Len(QSlots) > 0
    /\ Len(mockAppointments) > 0

TimesOfDay == {0, 15 * 60 + 37, DayMinutes - 1}

\* C18: the time of day of the date argument is ignored: the answer is the
\* answer to the query for any other time of the same calendar day.
C18_TimeOfDayIgnored ==
    q.called =>
        \A tod \in TimesOfDay :
            getAvailableTimeSlots(DayStart(q.date) + tod, q.barberId, q.duration,
                                  mockBusinessHours, mockAppointments) = q.result

\* C18 witness: a query at 15:37 returned slots.
C18_Witness ==
    /\ QAnswered
    /\ q.date % DayMinutes = 15 * 60 + 37
    /\ Len(QSlots) > 0

RECURSIVE Flatten(_)
Flatten(calls) ==
    IF Len(calls) = 0 THEN <<>> ELSE Head(calls).slots \o Flatten(Tail(calls))

\* C19: fetchSlots calls getAvailableTimeSlots once for each of the 7
\* consecutive days starting today, in day order, one call after the other;
\* every slot of a call lies on that call's calendar day, and availableSlots
\* is set to the concatenation of the 7 results in that order.
C19_SevenDaysConcatenated ==
    /\ fetch.pc \in {"loop", "done"} =>
            /\ Len(fetch.calls) = fetch.i
            /\ \A k \in 1..Len(fetch.calls) :
                    /\ DayStart(fetch.calls[k].date)
                            = DayStart(fetch.today) + (k - 1) * DayMinutes
                    /\ \A n \in 1..Len(fetch.calls[k].slots) :
                            /\ SameCalendarDay(fetch.calls[k].slots[n].startTime,
                                               fetch.calls[k].date)
                            /\ SameCalendarDay(fetch.calls[k].slots[n].endTime,
                                               fetch.calls[k].date)
    /\ fetch.pc = "done" =>
            /\ Len(fetch.calls) = 7
            /\ availableSlots = Flatten(fetch.calls)

\* C19 witness: a fetch is complete; its week holds a day without slots and
\* days with slots.
C19_Witness ==
    /\ fetch.pc = "done"
    /\ Len(availableSlots) > 0
    /\ \E k \in 1..Len(fetch.calls) : fetch.calls[k].slots = <<>>
    /\ fetch.today % DayMinutes # 0

\* the time of day of an "HH:MM" string, in minutes
MinuteOfDay(hhmm) == splitMapNumber(hhmm)[1] * 60 + splitMapNumber(hhmm)[2]

\* C20: every weekday of the stored business hours that is not closed has
\* open < close.
C20_OpenBeforeClose ==
    \A d \in DOMAIN mockBusinessHours :
        ~mockBusinessHours[d].isClosed =>
            MinuteOfDay(mockBusinessHours[d].open) < MinuteOfDay(mockBusinessHours[d].close)

C29_NoRoomNoSlots ==
    (q.called /\ QDayName \in DOMAIN mockBusinessHours /\ ~QHours.isClosed) =>
        LET open == QOpen
            close == QClose
        IN  (open >= close \/ q.duration > close - open) =>
                (q.result.ok /\ QSlots = <<>>)

\* C29 witness: a day stored with open after close was asked for a positive
\* duration while the barber has an appointment on it.
C29_Witness ==
    /\ QOpenDay
    /\ QOpen > QClose
    /\ q.duration > 0
    /\ \E app \in Stored : Blocks(app)
    /\ QSlots = <<>>

\* C21: every stored appointment has startTime < endTime.
C21_StartBeforeEnd ==
    \A i \in 1..Len(mockAppointments) :
        mockAppointments[i].startTime < mockAppointments[i].endTime

BarberIdsStored == {mockBarbers[i].id : i \in 1..Len(mockBarbers)}

\* C24: every stored appointment's barberId is the id of a stored barber;
\* deleteBarber(b) removes the barber stored under b (the first one with that
\* id) and every appointment with barberId b and leaves all other barbers and
\* appointments as they were; a rejected deleteBarber changes nothing.
C24_ReferentialIntegrity ==
    /\ [](\A i \in 1..Len(mockAppointments) :
            mockAppointments[i].barberId \in BarberIdsStored)
    /\ [][(/\ lastCall'.op = "deleteBarber"
           /\ (lastCall' # lastCall \/ Len(mockBarbers') < Len(mockBarbers))) =>
            LET b == lastCall'.data.barberId
            IN  IF b \in BarberIdsStored
                THEN /\ lastCall'.ok
                     /\ \E i \in 1..Len(mockBarbers) :
                            /\ mockBarbers[i].id = b
                            /\ \A j \in 1..(i - 1) : mockBarbers[j].id # b
                            /\ mockBarbers' = [k \in 1..(Len(mockBarbers) - 1) |->
                                    IF k < i THEN mockBarbers[k] ELSE mockBarbers[k + 1]]
                     /\ mockAppointments' =
                            SelectSeq(mockAppointments, LAMBDA app : app.barberId # b)
                     /\ mockBusinessHours' = mockBusinessHours
                ELSE /\ ~lastCall'.ok
                     /\ UNCHANGED storeVars]_vars

\* C24 witness: a barber with appointments was deleted while another barber
\* keeps an appointment.
C24_Witness ==
    /\ lastCall.op = "deleteBarber" /\ lastCall.ok
    /\ Len(mockBarbers) = 1
    /\ Len(mockAppointments) = 1
    /\ mockBarbers[1].name = "Zed"

\* C27: createAppointment with a serviceId or barberId that is not in the
\* store fails with "Service or Barber not found" and leaves the appointments
\* unchanged; otherwise it appends exactly one appointment, Scheduled, with
\* serviceName and price of the stored service and barberName of the stored
\* barber.
C27_CreateAppointmentOutcome ==
    [][(/\ lastCall'.op = "createAppointment"
        /\ (lastCall' # lastCall \/ Len(mockAppointments') > Len(mockAppointments))) =>
        LET data == lastCall'.data
            n == Len(mockAppointments)
        IN  IF data.serviceId \notin DOMAIN mockServices \/ data.barberId \notin BarberIdsStored
            THEN /\ ~lastCall'.ok
                 /\ lastCall'.error = "Service or Barber not found"
                 /\ mockAppointments' = mockAppointments
            ELSE /\ lastCall'.ok
                 /\ Len(mockAppointments') = n + 1
                 /\ SubSeq(mockAppointments', 1, n) = mockAppointments
                 /\ LET a == mockAppointments'[n + 1]
                    IN  /\ a.status = SCHEDULED
                        /\ a.barberId = data.barberId
                        /\ a.serviceId = data.serviceId
                        /\ a.startTime = data.startTime /\ a.endTime = data.endTime
                        /\ a.serviceName = mockServices[data.serviceId].name
                        /\ a.price = mockServices[data.serviceId].price
                        /\ \E i \in 1..Len(mockBarbers) :
                                /\ mockBarbers[i].id = data.barberId
                                /\ a.barberName = mockBarbers[i].name]_vars

\* C27 witness: after a successful call that took the name of a renamed
\* barber, a call with a known service and an unknown barber was rejected.
C27_Witness ==
    /\ lastCall.op = "createAppointment" /\ ~lastCall.ok
    /\ lastCall.data.serviceId \in DOMAIN mockServices
    /\ Len(mockAppointments) > 0
    /\ mockAppointments[1].barberName = "Zed"

\* C23: assigning to an object returned by getBusinessHours,
\* getAvailableTimeSlots or createAppointment, or to the object passed to
\* updateBusinessHours after the call, never changes the business hours or
\* the appointments held in the store.
C23_SnapshotsNotReferences ==
    [][(held'.kind = held.kind /\ held'.shared = held.shared /\ held'.value # held.value
            /\ lastCall' = lastCall) =>
        (mockBusinessHours' = mockBusinessHours /\ mockAppointments' = mockAppointments)]_vars

\* C25: every slot in availableSlots carries the currently selected barber
\* and lasts as long as the currently selected service, and the appointment
\* handleSubmit submits has the barberId of its slot.
C25_SlotsMatchSelection ==
    /\ \A i \in 1..Len(availableSlots) :
            /\ availableSlots[i].barberId = selectedBarberId
            /\ selectedServiceId \in DOMAIN mockServices
            /\ availableSlots[i].endTime - availableSlots[i].startTime
                    = mockServices[selectedServiceId].durationMinutes
    /\ submitted.done => submitted.data.barberId = submitted.slot.barberId

\* C26: a handleSubmit with an existing service, an existing barber and a
\* selected slot succeeds, and the store then holds a Scheduled appointment of
\* that barber at the slot's times.
C26_BookingReachesStore ==
    (/\ submitted.done
     /\ submitted.data.serviceId \in DOMAIN mockServices
     /\ submitted.data.barberId \in BarberIdsStored) =>
        /\ submitted.ok
        /\ \E i \in 1..Len(mockAppointments) :
                /\ mockAppointments[i].status = SCHEDULED
                /\ mockAppointments[i].barberId = submitted.data.barberId
                /\ mockAppointments[i].startTime = submitted.slot.startTime
                /\ mockAppointments[i].endTime = submitted.slot.endTime

\* C28: the reset scheduled 5 seconds after a successful booking never sends
\* a booking flow that is in step 2, 3 or 4 back to step 1 nor clears its
\* service, barber and slot selection.
C28_TimerResetsOnlyConfirmation ==
    [][(step \in {2, 3, 4} /\ resetTimers' < resetTimers) =>
        <<step, selectedServiceId, selectedBarberId, selectedSlot>>'
            = <<step, selectedServiceId, selectedBarberId, selectedSlot>>]_vars

\* C30: the user record is stored in at most one of localStorage and
\* sessionStorage under 'barberapp_user'; 'barberapp_remember' is present
\* exactly when the localStorage user record is; a failed login changes
\* neither storage nor currentUser; after logout currentUser is null and the
\* three keys are absent.
C30_SessionStorage ==
    /\ [](/\ localStorage.barberapp_user = null \/ sessionStorage.barberapp_user = null
          /\ (localStorage.barberapp_remember # null) <=> (localStorage.barberapp_user # null))
    /\ [][/\ (/\ lastCall'.op = "login" /\ ~lastCall'.ok
              /\ (lastCall' # lastCall \/ Len(authCalls') < Len(authCalls))) =>
                    UNCHANGED <<currentUser, localStorage, sessionStorage>>
          /\ (lastCall'.op = "logout" /\ Len(authCalls') = Len(authCalls)) =>
                    /\ currentUser' = null
                    /\ localStorage'.barberapp_user = null
                    /\ localStorage'.barberapp_remember = null
                    /\ sessionStorage'.barberapp_user = null]_vars

\* C30 witness: after a registration (remembered) and a later login without
\* rememberMe, the user is stored in sessionStorage only, and a login with a
\* wrong password has just failed.
C30_Witness ==
    /\ lastCall.op = "login" /\ ~lastCall.ok
    /\ Len(mockClients) > Len(InitClients)
    /\ sessionStorage.barberapp_user # null
    /\ localStorage.barberapp_user = null
    /\ currentUser # null

====
